---- MODULE Spec2Model ----
(***************************************************************************)
(* A model of Trycycler's command-line driver, src/trycycler/__main__.py:  *)
(* main() validates its inputs, loads the contigs and runs the             *)
(* reconciliation pipeline stage by stage.  One action per function that   *)
(* main calls; the imported stages (initial_sanity_check, get_starting_seq,*)
(* circularise, ...) are not part of the file and are modelled by what     *)
(* main does with them: each is called with the current values, may raise, *)
(* and otherwise returns a value that main binds.                          *)
(***************************************************************************)
EXTENDS Integers, Sequences, FiniteSets, TLC

VARIABLES
    argv,        \* the command line: [contigs, reads, out_dir, not_circular]
    files,       \* the content of each contig file, by path
    readsType,   \* what get_sequence_file_type answers for the reads file
    maxInput,    \* settings.MAX_INPUT_CONTIGS, the configured ceiling
    outKind,     \* what the output path is on disk
    outFiles,    \* the files of the output directory: name -> content
    rng,         \* the state of the process-wide random module
    memo,        \* results of the imported stages, fixed at first evaluation
    pc,          \* the function main is about to call
    run,         \* the number of the current call of main in this process
    args,        \* the namespace get_arguments returned
    seqs, starting_seq, per_base_scores, pairwise_alignments, consensus_seq,
    reported,    \* the labels check_input_contigs logged
    dirLog,      \* what check_output_directory logged
    events,      \* the calls of this run, each with the random state it saw
    written,     \* the files save_seqs_to_fasta wrote in this run
    exit,        \* how the run ended
    prev         \* what the previous call of main in this process did

vars == <<argv, files, readsType, maxInput, outKind, outFiles, rng, memo, pc,
          run, args, seqs, starting_seq, per_base_scores, pairwise_alignments,
          consensus_seq, reported, dirLog, events, written, exit, prev>>

(***************************************************************************)
(* Bounds of the model.                                                    *)
(***************************************************************************)
\* The longest argument list whose files take every kind of content.
MaxContigs == 3
\* The number of successive calls of main in one process.
MaxRuns == 2

None == "None"

\* string.ascii_uppercase
ascii_uppercase ==
    << "A", "B", "C", "D", "E", "F", "G", "H", "I", "J", "K", "L", "M",
       "N", "O", "P", "Q", "R", "S", "T", "U", "V", "W", "X", "Y", "Z" >>

(***************************************************************************)
(* Inputs.  A contig file is what get_sequence_file_type and load_fasta    *)
(* answer for it: its type and its records (name, sequence).               *)
(***************************************************************************)
Rec(k) == [name |-> k, seq |-> k]

FileKinds ==
    { [type |-> "FASTQ", records |-> << >>],
      [type |-> "FASTA", records |-> << >>],
      [type |-> "FASTA", records |-> << Rec(1) >>],
      [type |-> "FASTA", records |-> << Rec(2) >>],
      [type |-> "FASTA", records |-> << Rec(1), Rec(2) >>] }

\* n files of one record each, all names different.
AllGood(n) == [i \in 1..n |-> [type |-> "FASTA", records |-> << Rec(i) >>]]

ContigLists ==
    UNION { [1..n -> FileKinds] : n \in 1..MaxContigs }
    \cup { AllGood(n) : n \in { MaxContigs, Len(ascii_uppercase),
                                Len(ascii_uppercase) + 1 } }

\* settings.MAX_INPUT_CONTIGS, the configured ceiling on the number of
\* candidates: every label is a letter, so no more than there are letters.
Ceilings == { 2, Len(ascii_uppercase) }

\* The same with one ceiling that is past the last letter.
WideCeilings == Ceilings \cup { Len(ascii_uppercase) + 1 }

PathKinds == { "absent", "file", "dir", "special" }

File01 == "01_all_seqs.fasta"
File02 == "02_consensus.fasta"

(***************************************************************************)
(* The random module.  Its state is the seed it was last given and the     *)
(* number of draws since; a fresh process is seeded from the system, which *)
(* is written as the seed -1, different from every seed the program gives. *)
(***************************************************************************)
FreshRandom == [seed |-> -1, draws |-> 0]

random_seed_unchanged(state, a) == state

\* random.seed(a)
random_seed(state, a) == [seed |-> a, draws |-> 0]

Draw(state) == [state EXCEPT !.draws = @ + 1]

(***************************************************************************)
(* sys.exit(arg): a message is printed and the exit status is 1.           *)
(***************************************************************************)
Message(text, params) == [text |-> text, params |-> params]

SysExit(msg) == [code |-> 1, kind |-> "sys.exit", msg |-> msg]

\* An exception nobody catches: a traceback, and the exit status is 1.
Raised(exc) == [code |-> 1, kind |-> "exception", msg |-> Message(exc, << >>)]

Returned == [code |-> 0, kind |-> "return", msg |-> Message("", << >>)]

Running == [code |-> -1, kind |-> "running", msg |-> Message("", << >>)]

(***************************************************************************)
(* get_arguments                                                           *)
(***************************************************************************)
get_arguments(a) ==
    [contigs |-> a.contigs, reads |-> a.reads, out_dir |-> a.out_dir,
     not_circular |-> a.not_circular, circular |-> ~a.not_circular]

(***************************************************************************)
(* check_input_reads                                                       *)
(***************************************************************************)
ReadsRejected_fasta(read_type) == read_type # "FASTA"

ReadsRejected(read_type) == read_type # "FASTQ"

check_input_reads(read_type) ==
    IF ReadsRejected(read_type)
    THEN SysExit(Message("Error: input reads are not in FASTQ format", << >>))
    ELSE Returned

(***************************************************************************)
(* check_input_contigs                                                     *)
(***************************************************************************)
TooFew_one(filenames) == Len(filenames) < 1

TooFew(filenames) == Len(filenames) < 2

TooMany(filenames, ceiling) == Len(filenames) > ceiling

MultipleSeqs_off(fasta) == Len(fasta) > 2

MultipleSeqs(fasta) == Len(fasta) > 1

NamesAdd_forgotten(contig_names, contig_name) == contig_names

\* contig_names.add(contig_name)
NamesAdd(contig_names, contig_name) == contig_names \cup { contig_name }

\* string.ascii_uppercase[i], i counted from 0; None stands for IndexError.
Letter(i) == IF i + 1 <= Len(ascii_uppercase) THEN ascii_uppercase[i + 1] ELSE None

CheckLetter(i) == Letter(i)

\* The loop of check_input_contigs from file i on (i counted from 0).
RECURSIVE CheckContigsFrom(_, _, _, _)
CheckContigsFrom(fs, i, contig_names, logged) ==
    IF i >= Len(fs) THEN [exit |-> Returned, reported |-> logged]
    ELSE
    LET f == fs[i + 1]
        fasta == f.records
    IN  IF f.type # "FASTA"
        THEN [exit |-> SysExit(Message("Error: input contig file is not in FASTA format", << i >>)),
              reported |-> logged]
        ELSE IF Len(fasta) = 0
        THEN [exit |-> SysExit(Message("Error: input contig file contains no sequences", << i >>)),
              reported |-> logged]
        ELSE IF MultipleSeqs(fasta)
        THEN [exit |-> SysExit(Message("Error: input contig file contains multiple sequences", << i >>)),
              reported |-> logged]
        ELSE IF fasta[1].name \in contig_names
        THEN [exit |-> SysExit(Message("Error: duplicate contig name", << fasta[1].name >>)),
              reported |-> logged]
        ELSE IF CheckLetter(i) = None
        THEN [exit |-> Raised("IndexError"), reported |-> logged]
        ELSE CheckContigsFrom(fs, i + 1, NamesAdd(contig_names, fasta[1].name),
                 Append(logged, [letter |-> CheckLetter(i), file |-> i,
                                 name |-> fasta[1].name]))

check_input_contigs(fs, ceiling) ==
    IF TooFew(fs)
    THEN [exit |-> SysExit(Message("Error: two or more input contigs are required", << >>)),
          reported |-> << >>]
    ELSE IF TooMany(fs, ceiling)
    THEN [exit |-> SysExit(Message("Error: you cannot have more than MAX_INPUT_CONTIGS input contigs", << ceiling >>)),
          reported |-> << >>]
    ELSE CheckContigsFrom(fs, 0, {}, << >>)

(***************************************************************************)
(* check_output_directory                                                  *)
(***************************************************************************)
\* directory.is_file()
is_file(kind) == kind = "file"

is_dir_inverted(kind) == kind # "dir"

\* directory.is_dir()
is_dir(kind) == kind = "dir"

\* directory.mkdir(parents=True): FileExistsError when the path exists.
check_output_directory(kind) ==
    IF is_file(kind)
    THEN [exit |-> SysExit(Message("Error: output directory already exists as a file", << >>)),
          kind |-> kind, log |-> ""]
    ELSE IF is_dir(kind)
    THEN [exit |-> Returned, kind |-> kind,
          log |-> "Output directory already exists - files may be overwritten."]
    ELSE IF kind = "absent"
    THEN [exit |-> Returned, kind |-> "dir", log |-> "Creating output directory"]
    ELSE [exit |-> Raised("FileExistsError"), kind |-> kind,
          log |-> "Creating output directory"]

(***************************************************************************)
(* load_contig_sequences                                                   *)
(***************************************************************************)
LoadLetter_next(i) == Letter(i + 1)

LoadLetter(i) == Letter(i)

\* contig_seqs[letter] = value, a dict kept in insertion order.
DictSet(d, k, v) ==
    IF \E j \in 1..Len(d) : d[j].key = k
    THEN [j \in 1..Len(d) |-> IF d[j].key = k THEN [key |-> k, value |-> v] ELSE d[j]]
    ELSE Append(d, [key |-> k, value |-> v])

RECURSIVE LoadFrom(_, _, _)
LoadFrom(fs, i, contig_seqs) ==
    IF i >= Len(fs) THEN [exit |-> Returned, contig_seqs |-> contig_seqs]
    ELSE IF LoadLetter(i) = None
    THEN [exit |-> Raised("IndexError"), contig_seqs |-> contig_seqs]
    ELSE IF fs[i + 1].type # "FASTA"
    THEN [exit |-> Raised("load_fasta"), contig_seqs |-> contig_seqs]
    ELSE IF Len(fs[i + 1].records) # 1
    THEN [exit |-> Raised("AssertionError"), contig_seqs |-> contig_seqs]
    ELSE LoadFrom(fs, i + 1,
                  DictSet(contig_seqs, LoadLetter(i), fs[i + 1].records[1].seq))

load_contig_sequences(fs) == LoadFrom(fs, 0, << >>)

(***************************************************************************)
(* save_seqs_to_fasta: one header line and one sequence line per item.     *)
(***************************************************************************)
save_seqs_to_fasta(s) ==
    [lines |-> [j \in 1..Len(s.contigs) |->
                   [header |-> s.contigs[j].key, seq |-> s.contigs[j].value]],
     via |-> s.via]

(***************************************************************************)
(* main: the order of its calls.  After(fn, circular) is the call that     *)
(* follows fn when fn returns.                                             *)
(***************************************************************************)
After_scores_first(fn, circular) ==
    CASE fn = "check_input_reads" -> "check_input_contigs"
      [] fn = "check_input_contigs" -> "check_output_directory"
      [] fn = "check_output_directory" -> "check_required_software"
      [] fn = "check_required_software" -> "load_contig_sequences"
      [] fn = "load_contig_sequences" -> "initial_sanity_check"
      [] fn = "initial_sanity_check" -> "get_starting_seq"
      [] fn = "get_starting_seq" -> IF circular THEN "circularise" ELSE "get_per_base_scores"
      [] fn = "circularise" -> "rotate_to_starting_seq"
      [] fn = "rotate_to_starting_seq" -> "get_per_base_scores"
      [] fn = "get_per_base_scores" -> "save_01"
      [] fn = "save_01" -> "get_pairwise_alignments"
      [] fn = "get_pairwise_alignments" -> "get_consensus_seq"
      [] fn = "get_consensus_seq" -> "save_02"
      [] fn = "save_02" -> "return"

After(fn, circular) ==
    CASE fn = "check_input_reads" -> "check_input_contigs"
      [] fn = "check_input_contigs" -> "check_output_directory"
      [] fn = "check_output_directory" -> "check_required_software"
      [] fn = "check_required_software" -> "load_contig_sequences"
      [] fn = "load_contig_sequences" -> "initial_sanity_check"
      [] fn = "initial_sanity_check" -> "get_starting_seq"
      [] fn = "get_starting_seq" -> IF circular THEN "circularise" ELSE "save_01"
      [] fn = "circularise" -> "rotate_to_starting_seq"
      [] fn = "rotate_to_starting_seq" -> "save_01"
      [] fn = "save_01" -> "get_per_base_scores"
      [] fn = "get_per_base_scores" -> "get_pairwise_alignments"
      [] fn = "get_pairwise_alignments" -> "get_consensus_seq"
      [] fn = "get_consensus_seq" -> "save_02"
      [] fn = "save_02" -> "return"

Proceed(fn, circular) ==
    IF After(fn, circular) = "return"
    THEN [pc |-> "exited", exit |-> Returned]
    ELSE [pc |-> After(fn, circular), exit |-> Running]

Control_swallowed(fn, e, circular) ==
    IF e.kind = "sys.exit" THEN [pc |-> "exited", exit |-> e]
    ELSE Proceed(fn, circular)

\* main catches nothing: sys.exit and every exception end the run where
\* they happen; a call that returns is followed by the next one.
Control(fn, e, circular) ==
    IF e.kind # "return" THEN [pc |-> "exited", exit |-> e]
    ELSE Proceed(fn, circular)

Event(fn) == [fn |-> fn, rng |-> rng]

(***************************************************************************)
(* The imported stages.  What a stage does with given inputs and a given   *)
(* random state is not known here, but it is a function of them: its       *)
(* result is chosen the first time and is the same ever after.             *)
(***************************************************************************)
StageResults(fn) ==
    LET known == { m \in memo : m.fn = fn /\ m.rng = rng }
    IN  IF known = {} THEN { "returns", "raises" }
        ELSE { m.result : m \in known }

StageExit(fn, r) == IF r = "raises" THEN Raised(fn) ELSE Returned

\* The value an imported stage returns for a candidate set.
Through(s, fn) == [contigs |-> s.contigs, via |-> Append(s.via, fn)]

\* get_starting_seq's choice: some function of the candidates and of the
\* random state it is called with.
StartChoice(s, state) ==
    LET n == Len(s.contigs)
        k == IF state.seed = 0 THEN state.draws ELSE state.draws + 1
    IN  IF n = 0 THEN None ELSE s.contigs[(k % n) + 1].key

NoArgs == [contigs |-> << >>, reads |-> "", out_dir |-> "",
           not_circular |-> FALSE, circular |-> FALSE]

NoSeqs == [contigs |-> << >>, via |-> << >>]

NoPrev == [events |-> << >>, written |-> << >>, starting_seq |-> None,
           exit |-> Running]

InitWith(ceilings) ==
    /\ files \in ContigLists
    /\ \E flag \in BOOLEAN :
          argv = [contigs |-> [i \in 1..Len(files) |-> i], reads |-> "reads",
                  out_dir |-> "out_dir", not_circular |-> flag]
    /\ readsType \in { "FASTQ", "FASTA" }
    /\ maxInput \in ceilings
    /\ outKind \in PathKinds
    /\ outFiles = {}
    /\ rng = FreshRandom
    /\ memo = {}
    /\ pc = "main"
    /\ run = 1
    /\ args = NoArgs
    /\ seqs = NoSeqs
    /\ starting_seq = None
    /\ per_base_scores = << >>
    /\ pairwise_alignments = << >>
    /\ consensus_seq = << >>
    /\ reported = << >>
    /\ dirLog = ""
    /\ events = << >>
    /\ written = << >>
    /\ exit = Running
    /\ prev = NoPrev

Init == InitWith(Ceilings)

InitWide == InitWith(WideCeilings)

\* The step of main from fn with outcome e.
Goto(fn, e) ==
    /\ pc' = Control(fn, e, args.circular).pc
    /\ exit' = Control(fn, e, args.circular).exit

inputs == <<argv, files, readsType, maxInput>>
values == <<seqs, starting_seq, per_base_scores, pairwise_alignments, consensus_seq>>

\* main, lines 66-68: get_arguments, random.seed(0), welcome_message.
Main ==
    /\ pc = "main"
    /\ args' = get_arguments(argv)
    /\ rng' = random_seed(rng, 0)
    /\ pc' = "check_input_reads"
    /\ UNCHANGED <<inputs, outKind, outFiles, memo, run, values, reported, dirLog,
                   events, written, exit, prev>>

CheckInputReads ==
    /\ pc = "check_input_reads"
    /\ events' = Append(events, Event("check_input_reads"))
    /\ Goto("check_input_reads", check_input_reads(readsType))
    /\ UNCHANGED <<inputs, outKind, outFiles, rng, memo, run, args, values,
                   reported, dirLog, written, prev>>

CheckInputContigs ==
    /\ pc = "check_input_contigs"
    /\ events' = Append(events, Event("check_input_contigs"))
    /\ LET fs == [i \in 1..Len(args.contigs) |-> files[args.contigs[i]]]
           res == check_input_contigs(fs, maxInput)
       IN  /\ reported' = res.reported
           /\ Goto("check_input_contigs", res.exit)
    /\ UNCHANGED <<inputs, outKind, outFiles, rng, memo, run, args, values,
                   dirLog, written, prev>>

CheckOutputDirectory ==
    /\ pc = "check_output_directory"
    /\ events' = Append(events, Event("check_output_directory"))
    /\ LET res == check_output_directory(outKind)
       IN  /\ outKind' = res.kind
           /\ dirLog' = res.log
           /\ Goto("check_output_directory", res.exit)
    /\ UNCHANGED <<inputs, outFiles, rng, memo, run, args, values, reported,
                   written, prev>>

\* check_required_software: pass.
CheckRequiredSoftware ==
    /\ pc = "check_required_software"
    /\ events' = Append(events, Event("check_required_software"))
    /\ Goto("check_required_software", Returned)
    /\ UNCHANGED <<inputs, outKind, outFiles, rng, memo, run, args, values,
                   reported, dirLog, written, prev>>

LoadContigSequences ==
    /\ pc = "load_contig_sequences"
    /\ events' = Append(events, Event("load_contig_sequences"))
    /\ LET fs == [i \in 1..Len(args.contigs) |-> files[args.contigs[i]]]
           res == load_contig_sequences(fs)
       IN  /\ seqs' = IF res.exit.kind = "return"
                      THEN [contigs |-> res.contig_seqs, via |-> << >>]
                      ELSE seqs
           /\ Goto("load_contig_sequences", res.exit)
    /\ UNCHANGED <<inputs, outKind, outFiles, rng, memo, run, args,
                   starting_seq, per_base_scores, pairwise_alignments,
                   consensus_seq, reported, dirLog, written, prev>>

\* The call of imported stage fn with result r: it sees the random state,
\* may draw from it, and returns or raises.
Call(fn, r) ==
    /\ pc = fn
    /\ events' = Append(events, Event(fn))
    /\ memo' = memo \cup { [fn |-> fn, rng |-> rng, result |-> r] }
    /\ rng' = Draw(rng)
    /\ Goto(fn, StageExit(fn, r))
    /\ UNCHANGED <<inputs, outKind, outFiles, run, args, reported, dirLog,
                   written, prev>>

InitialSanityCheck ==
    \E r \in StageResults("initial_sanity_check") :
        /\ Call("initial_sanity_check", r)
        /\ UNCHANGED values

GetStartingSeq ==
    \E r \in StageResults("get_starting_seq") :
        /\ Call("get_starting_seq", r)
        /\ IF r = "returns"
           THEN /\ starting_seq' = StartChoice(seqs, rng)
                /\ seqs' = Through(seqs, "get_starting_seq")
           ELSE UNCHANGED <<starting_seq, seqs>>
        /\ UNCHANGED <<per_base_scores, pairwise_alignments, consensus_seq>>

Circularise ==
    \E r \in StageResults("circularise") :
        /\ Call("circularise", r)
        /\ seqs' = IF r = "returns" THEN Through(seqs, "circularise") ELSE seqs
        /\ UNCHANGED <<starting_seq, per_base_scores, pairwise_alignments,
                       consensus_seq>>

RotateToStartingSeq ==
    \E r \in StageResults("rotate_to_starting_seq") :
        /\ Call("rotate_to_starting_seq", r)
        /\ seqs' = IF r = "returns"
                   THEN Through(seqs, "rotate_to_starting_seq") ELSE seqs
        /\ UNCHANGED <<starting_seq, per_base_scores, pairwise_alignments,
                       consensus_seq>>

Save01 ==
    /\ pc = "save_01"
    /\ events' = Append(events, Event("save_01"))
    /\ outFiles' = outFiles \cup { File01 }
    /\ written' = Append(written, [file |-> File01,
                                   content |-> save_seqs_to_fasta(seqs)])
    /\ Goto("save_01", Returned)
    /\ UNCHANGED <<inputs, outKind, rng, memo, run, args, values, reported,
                   dirLog, prev>>

GetPerBaseScores ==
    \E r \in StageResults("get_per_base_scores") :
        /\ Call("get_per_base_scores", r)
        /\ per_base_scores' =
              IF r = "returns"
              THEN << [seqs |-> seqs, circular |-> args.circular] >>
              ELSE per_base_scores
        /\ UNCHANGED <<seqs, starting_seq, pairwise_alignments, consensus_seq>>

GetPairwiseAlignments ==
    \E r \in StageResults("get_pairwise_alignments") :
        /\ Call("get_pairwise_alignments", r)
        /\ pairwise_alignments' =
              IF r = "returns" THEN << [seqs |-> seqs] >> ELSE pairwise_alignments
        /\ UNCHANGED <<seqs, starting_seq, per_base_scores, consensus_seq>>

GetConsensusSeq ==
    \E r \in StageResults("get_consensus_seq") :
        /\ Call("get_consensus_seq", r)
        /\ consensus_seq' =
              IF r = "returns"
              THEN << [contigs |-> << [key |-> "consensus", value |-> 0] >>,
                       via |-> << "get_consensus_seq" >>,
                       seqs |-> seqs,
                       per_base_scores |-> per_base_scores,
                       pairwise_alignments |-> pairwise_alignments] >>
              ELSE consensus_seq
        /\ UNCHANGED <<seqs, starting_seq, per_base_scores, pairwise_alignments>>

Save02 ==
    /\ pc = "save_02"
    /\ events' = Append(events, Event("save_02"))
    /\ outFiles' = outFiles \cup { File02 }
    /\ written' = Append(written, [file |-> File02,
                                   content |-> save_seqs_to_fasta(consensus_seq[1])])
    /\ Goto("save_02", Returned)
    /\ UNCHANGED <<inputs, outKind, rng, memo, run, args, values, reported,
                   dirLog, prev>>

\* main is called again in the same process with the same command line:
\* the file system and the random module are as the last call left them.
MainAgain ==
    /\ pc = "exited"
    /\ run < MaxRuns
    /\ run' = run + 1
    /\ prev' = [events |-> events, written |-> written,
                starting_seq |-> starting_seq, exit |-> exit]
    /\ pc' = "main"
    /\ args' = NoArgs
    /\ seqs' = NoSeqs
    /\ starting_seq' = None
    /\ per_base_scores' = << >>
    /\ pairwise_alignments' = << >>
    /\ consensus_seq' = << >>
    /\ reported' = << >>
    /\ dirLog' = ""
    /\ events' = << >>
    /\ written' = << >>
    /\ exit' = Running
    /\ UNCHANGED <<inputs, outKind, outFiles, rng, memo>>

Next ==
    \/ Main
    \/ CheckInputReads
    \/ CheckInputContigs
    \/ CheckOutputDirectory
    \/ CheckRequiredSoftware
    \/ LoadContigSequences
    \/ InitialSanityCheck
    \/ GetStartingSeq
    \/ Circularise
    \/ RotateToStartingSeq
    \/ Save01
    \/ GetPerBaseScores
    \/ GetPairwiseAlignments
    \/ GetConsensusSeq
    \/ Save02
    \/ MainAgain

Spec == Init /\ [][Next]_vars

\* The same program under any ceiling, also one past the last letter.
SpecWide == InitWide /\ [][Next]_vars

(***************************************************************************)
(* What the properties below speak about.                                  *)
(***************************************************************************)
Called(fn) == \E k \in 1..Len(events) : events[k].fn = fn

Calls == [k \in 1..Len(events) |-> events[k].fn]

IsPrefix(p, q) == Len(p) <= Len(q) /\ \A k \in 1..Len(p) : p[k] = q[k]

WroteFile(name) == \E k \in 1..Len(written) : written[k].file = name

Checks == { "check_input_reads", "check_input_contigs",
            "check_output_directory", "check_required_software" }

Imported == { "initial_sanity_check", "get_starting_seq", "circularise",
              "rotate_to_starting_seq", "get_per_base_scores",
              "get_pairwise_alignments", "get_consensus_seq" }

\* Contig loading and everything main does after it.
Pipeline == Imported \cup { "load_contig_sequences", "save_01", "save_02" }

\* No call of the pipeline has been made and none is about to be.
BeforePipeline ==
    /\ pc \in Checks \cup { "main", "exited" }
    /\ \A fn \in Pipeline : ~Called(fn)
    /\ written = << >>

\* The inputs fail one of the validation checks.
ReadsNotFastq == readsType # "FASTQ"
SomeNotFasta == \E i \in 1..Len(files) : files[i].type # "FASTA"
SomeNotOneRecord ==
    \E i \in 1..Len(files) : files[i].type = "FASTA" /\ Len(files[i].records) # 1
SharedName ==
    \E i, j \in 1..Len(files) :
        /\ i < j
        /\ \E a \in 1..Len(files[i].records), b \in 1..Len(files[j].records) :
              files[i].records[a].name = files[j].records[b].name
WrongCount == Len(files) < 2 \/ Len(files) > maxInput
OutputIsFile == outKind = "file"

ValidationFails ==
    \/ ReadsNotFastq
    \/ SomeNotFasta
    \/ SomeNotOneRecord
    \/ SharedName
    \/ WrongCount
    \/ OutputIsFile

ValidationMessages ==
    { "Error: input reads are not in FASTQ format",
      "Error: two or more input contigs are required",
      "Error: you cannot have more than MAX_INPUT_CONTIGS input contigs",
      "Error: input contig file is not in FASTA format",
      "Error: input contig file contains no sequences",
      "Error: input contig file contains multiple sequences",
      "Error: duplicate contig name",
      "Error: output directory already exists as a file" }

(***************************************************************************)
(* C1.  When the inputs fail a validation check (reads not FASTQ, a contig *)
(* file not FASTA or without exactly one record, a shared contig name, too *)
(* few or too many contig files, the output path a regular file), the run  *)
(* never calls contig loading or any later stage and writes nothing; it    *)
(* ends through sys.exit with one of the validation messages and a         *)
(* non-zero status; and no check is called twice in a run.                 *)
(***************************************************************************)
C1_ValidationFailureIsFatal ==
    ValidationFails =>
        /\ BeforePipeline
        /\ pc # "check_required_software"
        /\ pc = "exited" =>
              /\ exit.kind = "sys.exit"
              /\ exit.code # 0
              /\ exit.msg.text \in ValidationMessages
        /\ \A k1, k2 \in 1..Len(events) :
              events[k1].fn = events[k2].fn => k1 = k2

C1_Witness ==
    /\ pc = "exited"
    /\ Called("check_output_directory")
    /\ exit.msg.text = "Error: output directory already exists as a file"

(***************************************************************************)
(* C2.  As claimed: with exactly one candidate file the run ends with the  *)
(* 'two or more input contigs are required' error and writes neither       *)
(* output file, whatever the reads file and the output path are.           *)
(***************************************************************************)
C2_AsClaimed ==
    (Len(files) = 1 /\ pc = "exited") =>
        /\ exit.msg.text = "Error: two or more input contigs are required"
        /\ ~WroteFile(File01)
        /\ ~WroteFile(File02)

(***************************************************************************)
(* C2, amended.  With exactly one candidate file the run ends in           *)
(* validation through sys.exit and writes neither output file, whatever    *)
(* the reads file and the output path are; the error is 'two or more input *)
(* contigs are required' when the reads are FASTQ, and the reads-format    *)
(* error, raised by the earlier check, when they are not.                  *)
(***************************************************************************)
C2_OneCandidateAborts ==
    Len(files) = 1 =>
        /\ BeforePipeline
        /\ pc \in { "main", "check_input_reads", "check_input_contigs", "exited" }
        /\ pc = "exited" =>
              /\ exit.kind = "sys.exit"
              /\ exit.code # 0
              /\ exit.msg.text =
                    IF readsType = "FASTQ"
                    THEN "Error: two or more input contigs are required"
                    ELSE "Error: input reads are not in FASTQ format"

C2_Witness ==
    /\ Len(files) = 1
    /\ pc = "exited"
    /\ exit.msg.text = "Error: two or more input contigs are required"

(***************************************************************************)
(* C3.  When two of the candidate files carry the same record name, at     *)
(* whatever positions, the run ends with a non-zero status before contig   *)
(* loading and writes neither output file.                                 *)
(***************************************************************************)
C3_DuplicateNameAborts ==
    SharedName =>
        /\ BeforePipeline
        /\ pc \in { "main", "check_input_reads", "check_input_contigs", "exited" }
        /\ pc = "exited" => exit.code # 0

C3_Witness ==
    /\ Len(files) = 3
    /\ files[1].records # files[2].records
    /\ pc = "exited"
    /\ exit.msg.text = "Error: duplicate contig name"

(***************************************************************************)
(* C4.  A call of check_output_directory: on a regular file the run ends   *)
(* through sys.exit and the file system is as it was; on an absent path    *)
(* the directory is made and the run goes on; on a directory the run goes  *)
(* on and the file system is as it was; and whenever the run goes on, the  *)
(* path is a directory.                                                    *)
(***************************************************************************)
C4_OutputDirectoryOutcomes ==
    [][ pc = "check_output_directory" =>
          /\ outKind = "file" =>
                /\ pc' = "exited"
                /\ exit'.kind = "sys.exit"
                /\ exit'.code # 0
                /\ outKind' = outKind /\ outFiles' = outFiles
          /\ outKind = "absent" =>
                /\ pc' = "check_required_software" /\ exit' = Running
                /\ outKind' = "dir" /\ outFiles' = outFiles
                /\ dirLog' = "Creating output directory"
          /\ outKind = "dir" =>
                /\ pc' = "check_required_software" /\ exit' = Running
                /\ outKind' = outKind /\ outFiles' = outFiles
                /\ dirLog' # "Creating output directory"
          /\ pc' # "exited" => outKind' = "dir"
      ]_vars

C4_Witness ==
    /\ pc = "check_required_software"
    /\ dirLog = "Creating output directory"
    /\ outKind = "dir"
    /\ outFiles = {}

(***************************************************************************)
(* C5.  When an imported stage raises, the run ends there with a non-zero  *)
(* status: nothing is called after it, the consensus file is not written   *)
(* in that run, and when the stage is circularise or rotate_to_starting_seq*)
(* the normalized-candidates file is not written either.                   *)
(***************************************************************************)
RaisedAt(k) ==
    /\ events[k].fn \in Imported
    /\ [fn |-> events[k].fn, rng |-> events[k].rng, result |-> "raises"] \in memo

C5_NoPartialSuccess ==
    \A k \in 1..Len(events) :
        RaisedAt(k) =>
            /\ k = Len(events)
            /\ pc = "exited"
            /\ exit.code # 0
            /\ ~WroteFile(File02)
            /\ events[k].fn \in { "circularise", "rotate_to_starting_seq" }
                  => ~WroteFile(File01)

C5_Witness ==
    /\ pc = "exited"
    /\ RaisedAt(Len(events))
    /\ events[Len(events)].fn = "get_pairwise_alignments"
    /\ WroteFile(File01)

(***************************************************************************)
(* C6.  The calls of a run are a prefix of one fixed order: the checks,    *)
(* loading, the sanity check, normalization (starting-sequence selection,  *)
(* and circularisation and rotation when circular), the write of the       *)
(* normalized candidates, scoring, pairwise alignment, consensus building, *)
(* the write of the consensus.  Consensus building is called only with the *)
(* scores and the alignments present, each file is written with its        *)
(* phase's result present, and the consensus file only after the other.    *)
(***************************************************************************)
FixedOrder(circular) ==
    << "check_input_reads", "check_input_contigs", "check_output_directory",
       "check_required_software", "load_contig_sequences",
       "initial_sanity_check", "get_starting_seq" >>
    \o (IF circular THEN << "circularise", "rotate_to_starting_seq" >> ELSE << >>)
    \o << "save_01", "get_per_base_scores", "get_pairwise_alignments",
          "get_consensus_seq", "save_02" >>

C6_FixedStageOrder ==
    /\ IsPrefix(Calls, FixedOrder(~argv.not_circular))
    /\ Called("get_consensus_seq") =>
          /\ per_base_scores # << >>
          /\ pairwise_alignments # << >>
    /\ Called("get_per_base_scores") => WroteFile(File01)
    /\ \A k \in 1..Len(written) :
          /\ written[k].file = File01 =>
                /\ k = 1
                /\ written[k].content = save_seqs_to_fasta(seqs)
          /\ written[k].file = File02 =>
                /\ k = 2
                /\ written[1].file = File01
                /\ consensus_seq # << >>
                /\ written[k].content = save_seqs_to_fasta(consensus_seq[1])

C6_Witness ==
    /\ pc = "exited"
    /\ exit.kind = "return"
    /\ Len(written) = 2
    /\ ~argv.not_circular

(***************************************************************************)
(* C7.  As claimed: with the circularity flag false no normalizer          *)
(* operation (starting-sequence selection, circularisation, rotation) is   *)
(* applied, so what is written to the first file and handed to the scorer  *)
(* and the aligner is the loaded set; with the flag true circularisation   *)
(* comes before rotation and both before the first file is written.        *)
(***************************************************************************)
Loaded ==
    [contigs |-> load_contig_sequences(files).contig_seqs, via |-> << >>]

C7_AsClaimed ==
    /\ argv.not_circular =>
          /\ ~Called("get_starting_seq")
          /\ ~Called("circularise")
          /\ ~Called("rotate_to_starting_seq")
          /\ \A k \in 1..Len(written) :
                written[k].file = File01 =>
                    written[k].content = save_seqs_to_fasta(Loaded)
          /\ per_base_scores # << >> => per_base_scores[1].seqs = Loaded
          /\ pairwise_alignments # << >> => pairwise_alignments[1].seqs = Loaded
    /\ (~argv.not_circular /\ WroteFile(File01)) =>
          \E i, j \in 1..Len(events) :
              /\ i < j
              /\ events[i].fn = "circularise"
              /\ events[j].fn = "rotate_to_starting_seq"

(***************************************************************************)
(* C8.  Once load_contig_sequences has returned, the argument list had     *)
(* between 2 and the ceiling files, the loaded set has one entry per file, *)
(* the i-th keyed by the i-th uppercase letter and holding the i-th file's *)
(* sequence, the labels are all different and are the ones                 *)
(* check_input_contigs reported; and loading never fails for want of a     *)
(* letter.                                                                 *)
(***************************************************************************)
LoadReturned ==
    /\ Called("load_contig_sequences")
    /\ ~(pc = "exited" /\ events[Len(events)].fn = "load_contig_sequences")

C8_LabelsInArgumentOrder ==
    /\ (Called("load_contig_sequences") /\ pc = "exited")
          => exit.msg.text # "IndexError"
    /\ LoadReturned =>
          /\ Len(files) >= 2 /\ Len(files) <= maxInput
          /\ Len(seqs.contigs) = Len(files)
          /\ Len(reported) = Len(files)
          /\ \A i \in 1..Len(files) :
                /\ i <= Len(ascii_uppercase)
                /\ seqs.contigs[i].key = ascii_uppercase[i]
                /\ seqs.contigs[i].value = files[i].records[1].seq
                /\ reported[i].letter = seqs.contigs[i].key
                /\ reported[i].file = i - 1
          /\ \A i, j \in 1..Len(seqs.contigs) :
                seqs.contigs[i].key = seqs.contigs[j].key => i = j

C8_Witness ==
    /\ LoadReturned
    /\ Len(files) = Len(ascii_uppercase)
    /\ seqs.contigs[Len(files)].key = "Z"

(***************************************************************************)
(* C9.  Every call of a run sees the random state that seed 0 and the      *)
(* draws of the calls before it in this run give, whatever the state was   *)
(* when main was called; and a call of main that follows another in the    *)
(* same process makes the same calls with the same random states, the same *)
(* starting-sequence choice, the same writes and the same exit.            *)
(***************************************************************************)
DrawsBefore(k) == Cardinality({ j \in 1..(k - 1) : events[j].fn \in Imported })

C9_FixedSeedDeterminism ==
    /\ \A k \in 1..Len(events) :
          events[k].rng = [seed |-> 0, draws |-> DrawsBefore(k)]
    /\ starting_seq # None =>
          starting_seq = StartChoice(seqs, [seed |-> 0, draws |-> 1])
    /\ (run > 1 /\ pc = "exited") =>
          /\ events = prev.events
          /\ written = prev.written
          /\ starting_seq = prev.starting_seq
          /\ exit = prev.exit

C9_Witness ==
    /\ run = 2
    /\ pc = "exited"
    /\ Len(written) = 2
    /\ starting_seq = prev.starting_seq
    /\ starting_seq # None

(***************************************************************************)
(* C10.  load_contig_sequences is called only when every candidate file    *)
(* holds exactly one record, so its assertion never fails: no run ends     *)
(* with an AssertionError.                                                 *)
(***************************************************************************)
C10_LoadAssertionHolds ==
    /\ (pc = "load_contig_sequences" \/ Called("load_contig_sequences")) =>
          \A i \in 1..Len(files) :
              files[i].type = "FASTA" /\ Len(files[i].records) = 1
    /\ exit.msg.text # "AssertionError"

C10_Witness ==
    /\ pc = "initial_sanity_check"
    /\ Len(files) = 2
    /\ seqs.contigs # << >>

====
